---- MODULE Spec2Model ----
(***************************************************************************)
(* The X.509 trust-store of bell (main/io/X509Bundle.cpp): the loader      *)
(* init, the verification hook crtVerifyCallback with its binary search,   *)
(* the signature check crtCheckCertificate, attach and shouldVerify.       *)
(*                                                                         *)
(* Bytes are naturals 0..255, a buffer is a sequence of bytes, an offset   *)
(* is 0-based as in the C++ code (byte k of a buffer b is b[k + 1]).       *)
(* A pointer into the byte vector is [base, off]: the address of the       *)
(* vector's storage at the time the pointer was taken and the offset       *)
(* from it.  A read through a pointer whose base is no longer the          *)
(* vector's storage, or past the vector's size, is a read of memory the    *)
(* program does not own; its value is chosen by the environment (junk).    *)
(***************************************************************************)
EXTENDS Integers, Sequences, FiniteSets, TLC

(* ------------------------------ bounds -------------------------------- *)

\* The largest number of entries of a generated bundle.
MaxCerts == 3

\* The number of distinct addresses the allocator hands out for the byte
\* vector's storage.
NumAddrs == 2

\* The threads that share one CentralAudioBuffer.
NumThreads == 2

(* ------------------------- program constants -------------------------- *)

CRT_HEADER_OFFSET == 4

BUNDLE_HEADER_OFFSET == 2

MBEDTLS_X509_BADCERT_EXPIRED == 1

MBEDTLS_X509_BADCERT_NOT_TRUSTED == 8

MBEDTLS_X509_BADCERT_BAD_MD == 16384

MBEDTLS_ERR_X509_FATAL_ERROR == -12288

\* Return values of the crypto library's steps when they fail.
MBEDTLS_ERR_PK_KEY_INVALID_FORMAT == -15616

MBEDTLS_ERR_MD_BAD_INPUT_DATA == -20736

MBEDTLS_ERR_PK_SIG_VERIFY_FAILED == -17280

(* ------------------------------ helpers ------------------------------- *)

Min(a, b) == IF a < b THEN a ELSE b

Max(a, b) == IF a > b THEN a ELSE b

\* uint16_t: the value of (hi << 8 | lo) for two bytes.
U16(hi, lo) == (hi * 256 + lo) % 65536

Hi(n) == (n \div 256) % 256

Lo(n) == n % 256

\* A mask that takes the expired bit off instead of the weak-digest bit.
MaskBadMd_WrongBit(flags) ==
  IF (flags \div MBEDTLS_X509_BADCERT_EXPIRED) % 2 = 1
  THEN flags - MBEDTLS_X509_BADCERT_EXPIRED
  ELSE flags

\* flags & ~(MBEDTLS_X509_BADCERT_BAD_MD) on a uint32_t.
MaskBadMd(flags) ==
  IF (flags \div MBEDTLS_X509_BADCERT_BAD_MD) % 2 = 1
  THEN flags - MBEDTLS_X509_BADCERT_BAD_MD
  ELSE flags

(* ----------------------- the bundle binary format ---------------------- *)

\* One entry: name_len, key_len (big-endian u16), the name, the key.
EncodeEntry(e) ==
  <<Hi(Len(e.name)), Lo(Len(e.name)), Hi(Len(e.key)), Lo(Len(e.key))>>
    \o e.name \o e.key

RECURSIVE EncodeEntries(_)
EncodeEntries(es) ==
  IF es = <<>> THEN <<>>
  ELSE EncodeEntry(Head(es)) \o EncodeEntries(Tail(es))

\* A bundle: num_certs (big-endian u16), then the entries, contiguous.
Encode(es) == <<Hi(Len(es)), Lo(Len(es))>> \o EncodeEntries(es)

\* Byte-wise lexicographic order of two names (the order of the generator).
NameLess(a, b) ==
  LET n == Min(Len(a), Len(b))
      D == {i \in 1..n : a[i] # b[i]}
  IN  IF D = {} THEN Len(a) < Len(b)
      ELSE LET i == CHOOSE j \in D : \A k \in D : j <= k IN a[i] < b[i]

(* ------------------------- the inputs of the model --------------------- *)

\* Subject names: "A", "B", "C", "D", "AA", "AB" as raw bytes.
A == <<65>>

B == <<66>>

C == <<67>>

D == <<68>>

AA == <<65, 65>>

AB == <<65, 66>>

\* The names the generated bundles draw their entries from; "A" is a proper
\* prefix of "AB".
BundleNames == {A, AB, B, C}

\* The issuers of the presented certificates.
Issuers == {A, AA, AB, B, C, D}

\* The fixed dummy key of each name: a one-byte key blob.
KeyOf(name) ==
  CASE name = A  -> <<1>>
    [] name = AB -> <<2>>
    [] name = B  -> <<3>>
    [] name = C  -> <<4>>
    [] OTHER     -> <<5>>

\* The key blobs the crypto library parses as a public key (all RSA keys).
ValidKeys == {KeyOf(n) : n \in BundleNames}

EntryOf(name) == [name |-> name, key |-> KeyOf(name)]

\* Entry lists of at most MaxCerts entries.
EntryLists ==
  UNION {[1..n -> {EntryOf(nm) : nm \in BundleNames}] : n \in 0..MaxCerts}

\* Sorted ascending by name bytes, as the generator writes them.
IsSorted(es) ==
  \A i \in 1..(Len(es) - 1) : NameLess(es[i].name, es[i + 1].name)

SortedLists == {es \in EntryLists : IsSorted(es)}

Truncate(b, n) == SubSeq(b, 1, n)

\* Well-formed sorted bundles.
SortedBundles == {Encode(es) : es \in SortedLists}

\* A well-formed bundle that is not sorted.
UnsortedBundles == {Encode(<<EntryOf(B), EntryOf(A)>>)}

\* Buffers with a structural violation: the last key byte cut off (final
\* cursor past the end), the last entry cut inside its header, and a count
\* that declares one entry more than the buffer holds.
SmallLists == {es \in SortedLists : Len(es) >= 1 /\ \A i \in 1..Len(es) : es[i].name \in {A, B}}

MalformedBundles ==
  {Truncate(Encode(es), Len(Encode(es)) - 1) : es \in SmallLists}
    \cup {Truncate(Encode(es), Len(Encode(es)) - 4) : es \in SmallLists}
    \cup {<<0, 2>> \o EncodeEntries(<<EntryOf(A)>>)}

\* Buffers shorter than the two headers, and an empty bundle padded to six
\* bytes.
ShortBundles == {<<>>, Encode(<<>>)}

PaddedEmptyBundle == <<0, 0, 0, 0, 0, 0>>

\* Every buffer init is called with.
Bundles ==
  SortedBundles \cup UnsortedBundles \cup MalformedBundles \cup ShortBundles
    \cup {PaddedEmptyBundle}

\* The chain flags crtVerifyCallback is called with.
FlagValues ==
  {0,
   MBEDTLS_X509_BADCERT_NOT_TRUSTED,
   MBEDTLS_X509_BADCERT_NOT_TRUSTED + MBEDTLS_X509_BADCERT_EXPIRED,
   MBEDTLS_X509_BADCERT_BAD_MD,
   MBEDTLS_X509_BADCERT_NOT_TRUSTED + MBEDTLS_X509_BADCERT_BAD_MD}

\* The presented certificates: the raw issuer name, the key that signed the
\* certificate, its signature algorithm and the result of hashing its
\* to-be-signed region.
Certs ==
  {[issuer_raw |-> i, signer |-> KeyOf(i), sig_pk |-> "RSA", md_ret |-> 0] :
     i \in Issuers}
    \cup {[issuer_raw |-> i, signer |-> KeyOf(A), sig_pk |-> "RSA", md_ret |-> 0] :
            i \in {AB, AA, B}}
    \cup {[issuer_raw |-> B, signer |-> KeyOf(B), sig_pk |-> "ECDSA", md_ret |-> 0],
          [issuer_raw |-> B, signer |-> KeyOf(B), sig_pk |-> "RSA",
           md_ret |-> MBEDTLS_ERR_MD_BAD_INPUT_DATA]}

\* What a read of memory the program does not own yields: one byte value
\* for every such byte read, one memcmp result for every comparison that
\* runs into such memory.
Junk ==
  {[byte |-> 0, cmp |-> -1], [byte |-> 66, cmp |-> 0], [byte |-> 66, cmp |-> 1]}

\* The allocator's answers to one init: whether calloc returns NULL, and
\* where the vector's storage is after a resize that grows it.
Allocs ==
  {[callocNull |-> TRUE, newData |-> 1]}
    \cup [callocNull : {FALSE}, newData : 1..NumAddrs]

(* ------------------------------- state --------------------------------- *)

VARIABLES
  bundleBytes,            \* static std::vector<uint8_t>: [data, bytes]
  s_crt_bundle,           \* static crt_bundle_t: [crts, num_certs]
  s_should_verify_certs,  \* static bool
  last,                   \* the last completed call, its inputs and results
  crts_freed,             \* the array s_crt_bundle.crts points to was freed
  ld,                     \* a thread inside init: its position and locals
  vf,                     \* a thread inside crtVerifyCallback: the same
  loaded,                 \* history: the buffers of the last two loads that
                          \* succeeded, oldest first
  arg,                    \* history: the buffer the last init was called with
  chk,                    \* a call of crtCheckCertificate: inputs and result
  isLocked,               \* CentralAudioBuffer: std::atomic<bool> isLocked
  accessMutex,            \* CentralAudioBuffer: std::mutex, 0 or its owner
  th                      \* the threads calling lockAccess and unlockAccess

vars ==
  <<bundleBytes, s_crt_bundle, s_should_verify_certs, last, crts_freed, ld, vf,
    loaded, arg, chk, isLocked, accessMutex, th>>

\* The recorded calls of the specifications that record them.
calls == <<arg, chk>>

\* The state of the trust store and of its specifications.
x509 ==
  <<bundleBytes, s_crt_bundle, s_should_verify_certs, last, crts_freed, ld, vf,
    loaded, arg, chk>>

\* The state of the CentralAudioBuffer.
audio == <<isLocked, accessMutex, th>>

\* The threads of the interleaved specification.
threads == <<crts_freed, ld, vf>>

\* const uint8_t** crts: NULL, or an array of pointers into the byte vector.
NullCrts == [null |-> TRUE, arr |-> <<>>]

NoCall ==
  [op |-> "none", result |-> "none", ret |-> 0, flags_in |-> 0, flags_out |-> 0,
   issuer |-> <<>>, searched |-> FALSE, crt_found |-> FALSE, middle |-> 0,
   key |-> <<>>, steps |-> <<>>, check_ret |-> 0]

NoCert == [issuer_raw |-> <<>>, signer |-> <<>>, sig_pk |-> "RSA", md_ret |-> 0]

IdleLoader ==
  [pc |-> "idle", x509_bundle |-> <<>>, newData |-> 0, num_certs |-> 0,
   crts |-> <<>>, result |-> "none"]

IdleVerifier ==
  [pc |-> "idle", child |-> NoCert, flags |-> 0, junk |-> [byte |-> 0, cmp |-> 0],
   start |-> 0, end |-> 0, middle |-> 0, name_len |-> 0, crt_found |-> FALSE,
   ret |-> 0]

\* crtCheckCertificate not called yet.
NoCheck == [child |-> NoCert, key |-> <<>>, ret |-> 0, steps |-> <<>>]

\* The threads that call lockAccess and unlockAccess.
Threads == 1..NumThreads

\* A thread outside both calls: the call it made last, whether isLocked was
\* set when that call tested it, and whether the call cleared the buffer.
IdleThread == [pc |-> "idle", op |-> "none", sawLocked |-> FALSE, cleared |-> FALSE]

Init ==
  /\ crts_freed = FALSE
  /\ ld = IdleLoader
  /\ vf = IdleVerifier
  /\ loaded = <<>>
  /\ bundleBytes = [data |-> 0, bytes |-> <<>>]
  /\ s_crt_bundle = [crts |-> NullCrts, num_certs |-> 0]
  /\ s_should_verify_certs = FALSE
  /\ last = NoCall
  /\ arg = <<>>
  /\ chk = NoCheck
  /\ isLocked = FALSE
  /\ accessMutex = 0
  /\ th = [t \in Threads |-> IdleThread]

(* -------------------------------- init --------------------------------- *)

\* bundleBytes.resize(bundle_size); memcpy(bundleBytes.data(), x509_bundle,
\* bundle_size).  A resize to at most the current size keeps the storage.
\* A resize beyond it keeps the storage when the capacity suffices and
\* otherwise moves the bytes to new storage and frees the old one; the
\* capacity is the library's choice, so whether it moves is the
\* environment's (newData = v.data: it stays).
ResizeAndCopy(v, x509_bundle, newData) ==
  LET bundle_size == Len(x509_bundle) IN
  IF bundle_size > Len(v.bytes)
  THEN [data |-> newData, bytes |-> x509_bundle]
  ELSE [v EXCEPT !.bytes = x509_bundle]

\* A walk without the check of the final cursor after the loop.
RECURSIVE WalkEntries_NoFinalCheck(_, _, _, _, _)
WalkEntries_NoFinalCheck(bytes, num_certs, i, cur_crt, crts) ==
  LET bundle_end == Len(bytes) IN
  IF i >= num_certs
  THEN [ok |-> TRUE, crts |-> crts]
  ELSE IF cur_crt + CRT_HEADER_OFFSET > bundle_end
  THEN [ok |-> FALSE, crts |-> Append(crts, cur_crt)]
  ELSE LET name_len == U16(bytes[cur_crt + 1], bytes[cur_crt + 2])
           key_len == U16(bytes[cur_crt + 3], bytes[cur_crt + 4])
       IN  WalkEntries_NoFinalCheck(bytes, num_certs, i + 1,
                                    cur_crt + CRT_HEADER_OFFSET + name_len + key_len,
                                    Append(crts, cur_crt))

\* The loop of init over the copied bytes: cur_crt is an offset from
\* bytes.data(), bundle_end is Len(bytes).  Returns whether the walk ended
\* without a throw, and the offsets recorded in crts.
RECURSIVE WalkEntries(_, _, _, _, _)
WalkEntries(bytes, num_certs, i, cur_crt, crts) ==
  LET bundle_end == Len(bytes) IN
  IF i >= num_certs
  THEN [ok |-> ~(cur_crt > bundle_end), crts |-> crts]
  ELSE IF cur_crt + CRT_HEADER_OFFSET > bundle_end
  THEN [ok |-> FALSE, crts |-> Append(crts, cur_crt)]
  ELSE LET name_len == U16(bytes[cur_crt + 1], bytes[cur_crt + 2])
           key_len == U16(bytes[cur_crt + 3], bytes[cur_crt + 4])
       IN  WalkEntries(bytes, num_certs, i + 1,
                       cur_crt + CRT_HEADER_OFFSET + name_len + key_len,
                       Append(crts, cur_crt))

\* The pointers crts[i] = bundleBytes.data() + offset.
PointersAt(data, offs) == [i \in 1..Len(offs) |-> [base |-> data, off |-> offs[i]]]

\* An init that assigns the index and the count before it validates.
Installed_BeforeValidation(old, ok, data, offs, num_certs) ==
  [crts |-> [null |-> FALSE, arr |-> PointersAt(data, offs)],
   num_certs |-> num_certs]

\* s_crt_bundle after the walk: the new index and count are assigned only
\* when no check threw.
Installed(old, ok, data, offs, num_certs) ==
  IF ok
  THEN [crts |-> [null |-> FALSE, arr |-> PointersAt(data, offs)],
        num_certs |-> num_certs]
  ELSE old

\* An init that sets the flag before it validates.
ShouldVerifyAfter_BeforeValidation(old, ok) == TRUE

\* s_should_verify_certs after the walk: set by the last statement of init.
ShouldVerifyAfter(old, ok) == IF ok THEN TRUE ELSE old

\* init(x509_bundle, bundle_size), with the allocator's answers: whether
\* calloc returns NULL, and where a reallocated vector's storage lands.
init(x509_bundle, callocNull, newData) ==
  LET bundle_size == Len(x509_bundle) IN
  IF bundle_size < BUNDLE_HEADER_OFFSET + CRT_HEADER_OFFSET
  THEN /\ last' = [NoCall EXCEPT !.op = "init", !.result = "InvalidBundle"]
       /\ UNCHANGED <<bundleBytes, s_crt_bundle, s_should_verify_certs>>
  ELSE
  LET num_certs == U16(x509_bundle[1], x509_bundle[2]) IN
  IF callocNull
  THEN /\ last' = [NoCall EXCEPT !.op = "init", !.result = "AllocationFailure"]
       /\ UNCHANGED <<bundleBytes, s_crt_bundle, s_should_verify_certs>>
  ELSE
  LET copied == ResizeAndCopy(bundleBytes, x509_bundle, newData)
      walk == WalkEntries(copied.bytes, num_certs, 0, BUNDLE_HEADER_OFFSET, <<>>)
  IN  /\ bundleBytes' = copied
      /\ s_crt_bundle' =
           Installed(s_crt_bundle, walk.ok, copied.data, walk.crts, num_certs)
      /\ s_should_verify_certs' = ShouldVerifyAfter(s_should_verify_certs, walk.ok)
      /\ last' = [NoCall EXCEPT !.op = "init",
                                !.result = IF walk.ok THEN "ok" ELSE "InvalidBundle"]

\* A call of init that runs to its end before any other call.
Load ==
  \E x509_bundle \in Bundles, alloc \in Allocs :
    /\ init(x509_bundle, alloc.callocNull, alloc.newData)
    /\ UNCHANGED <<threads, loaded, calls, audio>>

(* ------------------------- crtCheckCertificate ------------------------- *)

\* mbedtls_pk_parse_public_key: 0 for a key blob the library can parse.
PkParse(key) ==
  IF key \in ValidKeys THEN 0 ELSE MBEDTLS_ERR_PK_KEY_INVALID_FORMAT

\* mbedtls_pk_can_do(&parent.pk, child->sig_pk): every key of the model is
\* an RSA key.
PkCanDo(key, sig_pk) == sig_pk = "RSA"

\* mbedtls_pk_verify_ext: 0 when the signature was made with this key.
PkVerify(child, key) ==
  IF key = child.signer THEN 0 ELSE MBEDTLS_ERR_PK_SIG_VERIFY_FAILED

\* A check without the goto after the failed algorithm test: it goes on to
\* the digest and the signature.
crtCheckCertificate_NoGotoAfterCanDo(child, key) ==
  IF PkParse(key) # 0
  THEN [ret |-> PkParse(key), steps |-> <<"parse">>]
  ELSE IF child.md_ret # 0
  THEN [ret |-> child.md_ret, steps |-> <<"parse", "can_do", "md">>]
  ELSE [ret |-> PkVerify(child, key),
        steps |-> <<"parse", "can_do", "md", "verify">>]

\* crtCheckCertificate(child, pub_key_buf, pub_key_len): the return value
\* and the library steps that ran, in order.
crtCheckCertificate(child, key) ==
  IF PkParse(key) # 0
  THEN [ret |-> PkParse(key), steps |-> <<"parse">>]
  ELSE IF ~PkCanDo(key, child.sig_pk)
  THEN [ret |-> -1, steps |-> <<"parse", "can_do">>]
  ELSE IF child.md_ret # 0
  THEN [ret |-> child.md_ret, steps |-> <<"parse", "can_do", "md">>]
  ELSE [ret |-> PkVerify(child, key),
        steps |-> <<"parse", "can_do", "md", "verify">>]

\* The certificates and key blobs crtCheckCertificate is called with: every
\* signer, both signature algorithms, a digest that fails or not; keys the
\* library parses and blobs it does not.
CheckCerts ==
  [issuer_raw : {A, B}, signer : ValidKeys, sig_pk : {"RSA", "ECDSA"},
   md_ret : {0, MBEDTLS_ERR_MD_BAD_INPUT_DATA}]

CheckKeys == ValidKeys \cup {KeyOf(D), <<>>, <<0>>}

\* A call of crtCheckCertificate, recorded with its inputs.
Check ==
  /\ \E child \in CheckCerts, key \in CheckKeys :
       LET check == crtCheckCertificate(child, key)
       IN  chk' = [child |-> child, key |-> key, ret |-> check.ret,
                   steps |-> check.steps]
  /\ UNCHANGED <<bundleBytes, s_crt_bundle, s_should_verify_certs, last, threads,
                 loaded, arg, audio>>

NextCheck == Check

SpecCheck == Init /\ [][NextCheck]_vars

(* -------------------------- crtVerifyCallback -------------------------- *)

\* C integer division (truncation toward zero).
CDiv(a, b) == IF a >= 0 THEN a \div b ELSE -((-a) \div b)

\* Whether byte k behind pointer p is a byte of the vector v.
Owned(v, p, k) == p.base = v.data /\ p.off + k >= 0 /\ p.off + k < Len(v.bytes)

\* p[k]: the byte, or what the environment leaves there.
ReadByte(v, p, k, junk) ==
  IF Owned(v, p, k) THEN v.bytes[p.off + k + 1] ELSE junk.byte

\* crts[middle] of the array arr: an element, or a pointer to nowhere when
\* middle is outside the array.
ReadCrt(arr, middle) ==
  IF middle >= 0 /\ middle < Len(arr) THEN arr[middle + 1]
  ELSE [base |-> -1, off |-> 0]

\* A comparison that also requires the issuer to be name_len bytes long.
Memcmp_WholeIssuer(issuer_raw, v, crt_name, name_len, junk) ==
  IF Len(issuer_raw) # name_len
  THEN (IF Len(issuer_raw) < name_len THEN -1 ELSE 1)
  ELSE IF \E i \in 1..name_len : issuer_raw[i] # ReadByte(v, crt_name, i - 1, junk)
  THEN LET i == CHOOSE j \in 1..name_len :
                  /\ issuer_raw[j] # ReadByte(v, crt_name, j - 1, junk)
                  /\ \A k \in 1..(j - 1) :
                       issuer_raw[k] = ReadByte(v, crt_name, k - 1, junk)
       IN  IF issuer_raw[i] < ReadByte(v, crt_name, i - 1, junk) THEN -1 ELSE 1
  ELSE 0

\* memcmp(child->issuer_raw.p, crt_name, name_len): the sign of the first
\* difference among the first name_len bytes.  A comparison that reaches the
\* end of the issuer's bytes or of the vector before it finds a difference
\* reads memory outside them, and the environment decides its result.
Memcmp(issuer_raw, v, crt_name, name_len, junk) ==
  LET ownedB == IF crt_name.base = v.data
                THEN Max(0, Len(v.bytes) - crt_name.off)
                ELSE 0
      lim == Min(name_len, Min(Len(issuer_raw), ownedB))
      Diff == {i \in 0..(lim - 1) :
                 issuer_raw[i + 1] # v.bytes[crt_name.off + i + 1]}
  IN  IF Diff # {}
      THEN LET i == CHOOSE j \in Diff : \A k \in Diff : j <= k
           IN  IF issuer_raw[i + 1] < v.bytes[crt_name.off + i + 1] THEN -1 ELSE 1
      ELSE IF lim < name_len THEN junk.cmp
      ELSE 0

\* The number of leading bytes of the issuer that memcmp(child->issuer_raw.p,
\* crt_name, name_len) is certain to read: up to and including the first
\* difference; with no difference among the bytes both operands own, the
\* byte after them too, and all name_len bytes when the result is 0.
IssuerBytesRead(issuer_raw, v, crt_name, name_len, junk) ==
  LET ownedB == IF crt_name.base = v.data
                THEN Max(0, Len(v.bytes) - crt_name.off)
                ELSE 0
      lim == Min(name_len, Min(Len(issuer_raw), ownedB))
      Diff == {i \in 0..(lim - 1) :
                 issuer_raw[i + 1] # v.bytes[crt_name.off + i + 1]}
  IN  IF Diff # {}
      THEN (CHOOSE j \in Diff : \A k \in Diff : j <= k) + 1
      ELSE IF lim < name_len /\ junk.cmp # 0 THEN lim + 1
      ELSE name_len

\* crtVerifyCallback, lines 116-119: the candidate crts[middle] as the loop
\* body reads it: its stored name_len, the pointer to its name, and the
\* result of memcmp.
Candidate(issuer_raw, v, arr, middle, junk) ==
  LET crt == ReadCrt(arr, middle)
      nl == U16(ReadByte(v, crt, 0, junk), ReadByte(v, crt, 1, junk))
      crt_name == [crt EXCEPT !.off = @ + CRT_HEADER_OFFSET]
  IN  [name_len |-> nl, crt_name |-> crt_name,
       cmp_res |-> Memcmp(issuer_raw, v, crt_name, nl, junk)]

\* An iteration that keeps the candidate in the interval when it goes left.
Narrow_KeepsMiddle(start, end, middle, cmp_res) ==
  IF cmp_res < 0
  THEN [start |-> start, end |-> middle, middle |-> CDiv(start + middle, 2)]
  ELSE [start |-> middle + 1, end |-> end, middle |-> CDiv(middle + 1 + end, 2)]

\* crtVerifyCallback, lines 123-128: the interval and the middle after an
\* iteration that did not match.
Narrow(start, end, middle, cmp_res) ==
  IF cmp_res < 0
  THEN [start |-> start, end |-> middle - 1, middle |-> CDiv(start + middle - 1, 2)]
  ELSE [start |-> middle + 1, end |-> end, middle |-> CDiv(middle + 1 + end, 2)]

RECURSIVE BinarySearch(_, _, _, _, _, _, _, _)
\* The while loop of crtVerifyCallback, from its head with the given locals.
BinarySearch(issuer_raw, v, b, start, end, middle, name_len, junk) ==
  IF ~(start <= end)
  THEN [crt_found |-> FALSE, middle |-> middle, name_len |-> name_len]
  ELSE
  LET crt == ReadCrt(b.crts.arr, middle)
      nl == U16(ReadByte(v, crt, 0, junk), ReadByte(v, crt, 1, junk))
      crt_name == [crt EXCEPT !.off = @ + CRT_HEADER_OFFSET]
      cmp_res == Memcmp(issuer_raw, v, crt_name, nl, junk)
  IN  IF cmp_res = 0
      THEN [crt_found |-> TRUE, middle |-> middle, name_len |-> nl]
      ELSE IF cmp_res < 0
      THEN BinarySearch(issuer_raw, v, b, start, middle - 1,
                        CDiv(start + middle - 1, 2), nl, junk)
      ELSE BinarySearch(issuer_raw, v, b, middle + 1, end,
                        CDiv(middle + 1 + end, 2), nl, junk)

\* The lookup of crtVerifyCallback in the store (v, b).
Lookup(issuer_raw, v, b, junk) ==
  BinarySearch(issuer_raw, v, b, 0, b.num_certs - 1,
               CDiv((b.num_certs - 1) - 0, 2), 0, junk)

\* The key_len bytes at crts[middle] + CRT_HEADER_OFFSET + name_len; bytes
\* outside the vector are what the environment leaves there.
ReadKey(v, b, found, junk) ==
  LET crt == ReadCrt(b.crts.arr, found.middle)
      key_len == U16(ReadByte(v, crt, 2, junk), ReadByte(v, crt, 3, junk))
      from == CRT_HEADER_OFFSET + found.name_len
  IN  IF key_len = 0 THEN <<>>
      ELSE IF Owned(v, crt, from) /\ Owned(v, crt, from + key_len - 1)
      THEN SubSeq(v.bytes, crt.off + from + 1, crt.off + from + key_len)
      ELSE <<junk.byte>>

\* A callback that clears the untrusted bit only.
FlagsAfter_UntrustedBitOnly(ret, flags) ==
  IF ret = 0 THEN flags - MBEDTLS_X509_BADCERT_NOT_TRUSTED ELSE flags

\* *flags after the lookup and the signature check: cleared when ret is 0.
FlagsAfter(ret, flags) == IF ret = 0 THEN 0 ELSE flags

\* crtVerifyCallback(buf, crt, depth, flags) with *flags = flags on entry.
crtVerifyCallback(child, flags, junk) ==
  LET flags_filtered == MaskBadMd(flags)
      call == [NoCall EXCEPT !.op = "crtVerifyCallback", !.flags_in = flags,
                             !.flags_out = flags, !.issuer = child.issuer_raw]
  IN
  /\ UNCHANGED <<bundleBytes, s_crt_bundle, s_should_verify_certs>>
  /\ IF flags_filtered # MBEDTLS_X509_BADCERT_NOT_TRUSTED
     THEN last' = [call EXCEPT !.ret = 0]
     ELSE IF s_crt_bundle.crts.null
     THEN last' = [call EXCEPT !.ret = MBEDTLS_ERR_X509_FATAL_ERROR]
     ELSE
     LET found == Lookup(child.issuer_raw, bundleBytes, s_crt_bundle, junk)
         key == ReadKey(bundleBytes, s_crt_bundle, found, junk)
         check == crtCheckCertificate(child, key)
         ret == IF found.crt_found THEN check.ret
                ELSE MBEDTLS_ERR_X509_FATAL_ERROR
         searched == [call EXCEPT !.searched = TRUE,
                                  !.crt_found = found.crt_found,
                                  !.middle = found.middle]
         checked == IF found.crt_found
                    THEN [searched EXCEPT !.key = key, !.steps = check.steps,
                                          !.check_ret = check.ret]
                    ELSE searched
     IN  last' = [checked EXCEPT
                    !.flags_out = FlagsAfter(ret, flags),
                    !.ret = IF ret = 0 THEN 0 ELSE MBEDTLS_ERR_X509_FATAL_ERROR]

\* A call of crtVerifyCallback that runs to its end before any other call.
Verify ==
  \E child \in Certs, flags \in FlagValues, junk \in Junk :
    /\ crtVerifyCallback(child, flags, junk)
    /\ UNCHANGED <<threads, loaded, calls, audio>>

(* ----------------------- attach and shouldVerify ----------------------- *)

\* attach(conf): writes the caller's configuration only (the dummy
\* certificate as CA chain, crtVerifyCallback as the verification hook).
attach ==
  /\ last' = [NoCall EXCEPT !.op = "attach",
                            !.result = "ca_chain=s_dummy_crt,f_vrfy=crtVerifyCallback"]
  /\ UNCHANGED <<bundleBytes, s_crt_bundle, s_should_verify_certs>>

shouldVerify == s_should_verify_certs

Attach == attach /\ UNCHANGED <<threads, loaded, calls, audio>>

(* ---------------------------- specification ---------------------------- *)

\* Calls of init, crtVerifyCallback and attach, one after the other.
Next == Load \/ Verify \/ Attach

Spec == Init /\ [][Next]_vars

(* ------------------- reloads, with their history ---------------------- *)

\* The well-formed sorted bundles over the names "A" and "AB".
ReloadBundles ==
  {Encode(es) : es \in {l \in SortedLists :
                          \A i \in 1..Len(l) : l[i].name \in {A, AB}}}

\* The last two buffers whose load succeeded, after a load of x509_bundle
\* that ended with result.
Remember(old, x509_bundle, result) ==
  IF result # "ok" THEN old
  ELSE IF old = <<>> THEN <<x509_bundle>>
  ELSE <<old[Len(old)], x509_bundle>>

\* A call of init with a well-formed bundle, recorded in the history.
Reload ==
  \E x509_bundle \in ReloadBundles, alloc \in Allocs :
    /\ init(x509_bundle, alloc.callocNull, alloc.newData)
    /\ loaded' = Remember(loaded, x509_bundle, last'.result)
    /\ UNCHANGED <<threads, calls, audio>>

NextReload == Reload \/ Verify \/ Attach

SpecReload == Init /\ [][NextReload]_vars

(* ------------------ loads, with the buffer of each call ---------------- *)

\* The entry lists whose encodings the loads below are cut from: sorted,
\* unsorted, and a name that is a prefix of the next.
AcceptLists ==
  {<<>>, <<EntryOf(A)>>, <<EntryOf(AB)>>, <<EntryOf(B), EntryOf(A)>>,
   <<EntryOf(A), EntryOf(AB)>>}

Prefixes(b) == {Truncate(b, n) : n \in 0..Len(b)}

\* Every prefix of these encodings, a count lower than the entries that
\* follow it, an entry with an empty name and an empty key, and empty bundles
\* of five and six bytes.
AcceptBundles ==
  UNION {Prefixes(Encode(es)) : es \in AcceptLists}
    \cup {<<0, 1>> \o EncodeEntries(<<EntryOf(A), EntryOf(B)>>),
          <<0, 1, 0, 0, 0, 0>>, <<0, 0, 0, 0, 0>>, PaddedEmptyBundle}

\* A call of init, recorded with the buffer it was given.
Accept ==
  \E x509_bundle \in AcceptBundles, alloc \in Allocs :
    /\ init(x509_bundle, alloc.callocNull, alloc.newData)
    /\ arg' = x509_bundle
    /\ UNCHANGED <<threads, loaded, chk, audio>>

NextAccept == Accept

SpecAccept == Init /\ [][NextAccept]_vars

(* -------------- init interleaved with crtVerifyCallback ---------------- *)

\* The buffers and certificates of the interleaved specification.
ConcBundles ==
  {Encode(<<EntryOf(A)>>), Encode(<<EntryOf(A), EntryOf(B)>>),
   Encode(<<EntryOf(B)>>), Encode(<<>>)}

ConcCerts == {c \in Certs : c.issuer_raw \in {A, B} /\ c.md_ret = 0}

ConcFlags == {0, MBEDTLS_X509_BADCERT_NOT_TRUSTED}

\* init, lines 156-166: the size check, num_certs, calloc.
InitEnter(x509_bundle, callocNull, newData) ==
  /\ ld.pc = "idle"
  /\ LET bundle_size == Len(x509_bundle) IN
     IF bundle_size < BUNDLE_HEADER_OFFSET + CRT_HEADER_OFFSET
     THEN ld' = [IdleLoader EXCEPT !.result = "InvalidBundle"]
     ELSE IF callocNull
     THEN ld' = [IdleLoader EXCEPT !.result = "AllocationFailure"]
     ELSE ld' = [IdleLoader EXCEPT
                   !.pc = "copy", !.x509_bundle = x509_bundle,
                   !.newData = newData,
                   !.num_certs = U16(x509_bundle[1], x509_bundle[2])]
  /\ UNCHANGED <<bundleBytes, s_crt_bundle, s_should_verify_certs, last,
                 crts_freed, vf, loaded, calls, audio>>

\* init, lines 168-190: the resize and memcpy into bundleBytes, then the
\* walk over the copied bytes, which only this thread reads.
InitCopy ==
  /\ ld.pc = "copy"
  /\ LET copied == ResizeAndCopy(bundleBytes, ld.x509_bundle, ld.newData)
         walk == WalkEntries(copied.bytes, ld.num_certs, 0,
                             BUNDLE_HEADER_OFFSET, <<>>)
     IN  /\ bundleBytes' = copied
         /\ ld' = IF walk.ok
                  THEN [ld EXCEPT !.pc = "free",
                                  !.crts = PointersAt(copied.data, walk.crts)]
                  ELSE [IdleLoader EXCEPT !.result = "InvalidBundle"]
  /\ UNCHANGED <<s_crt_bundle, s_should_verify_certs, last, crts_freed, vf,
                 loaded, calls, audio>>

\* init, line 195: free(s_crt_bundle.crts); free(NULL) does nothing.
InitFree ==
  /\ ld.pc = "free"
  /\ crts_freed' = ~s_crt_bundle.crts.null
  /\ ld' = [ld EXCEPT !.pc = "num_certs"]
  /\ UNCHANGED <<bundleBytes, s_crt_bundle, s_should_verify_certs, last, vf,
                 loaded, calls, audio>>

\* init, line 196: s_crt_bundle.num_certs = num_certs.
InitNumCerts ==
  /\ ld.pc = "num_certs"
  /\ s_crt_bundle' = [s_crt_bundle EXCEPT !.num_certs = ld.num_certs]
  /\ ld' = [ld EXCEPT !.pc = "crts"]
  /\ UNCHANGED <<bundleBytes, s_should_verify_certs, last, crts_freed, vf,
                 loaded, calls, audio>>

\* init, line 197: s_crt_bundle.crts = crts.
InitCrts ==
  /\ ld.pc = "crts"
  /\ s_crt_bundle' = [s_crt_bundle EXCEPT !.crts = [null |-> FALSE, arr |-> ld.crts]]
  /\ crts_freed' = FALSE
  /\ ld' = [ld EXCEPT !.pc = "should_verify"]
  /\ UNCHANGED <<bundleBytes, s_should_verify_certs, last, vf, loaded, calls, audio>>

\* init, line 200: s_should_verify_certs = true, and the return.
InitShouldVerify ==
  /\ ld.pc = "should_verify"
  /\ s_should_verify_certs' = TRUE
  /\ ld' = [IdleLoader EXCEPT !.result = "ok"]
  /\ UNCHANGED <<bundleBytes, s_crt_bundle, last, crts_freed, vf, loaded, calls, audio>>

\* The array s_crt_bundle.crts as a thread reads it: freed memory holds no
\* pointer of the program.
CrtsRead == IF crts_freed THEN <<>> ELSE s_crt_bundle.crts.arr

\* crtVerifyCallback, lines 93-102: the flags test and the NULL test.
VerifyEnter(child, flags, junk) ==
  /\ vf.pc = "idle"
  /\ LET call == [IdleVerifier EXCEPT !.child = child, !.flags = flags,
                                     !.junk = junk]
     IN  IF MaskBadMd(flags) # MBEDTLS_X509_BADCERT_NOT_TRUSTED
         THEN vf' = [call EXCEPT !.ret = 0]
         ELSE IF s_crt_bundle.crts.null
         THEN vf' = [call EXCEPT !.ret = MBEDTLS_ERR_X509_FATAL_ERROR]
         ELSE vf' = [call EXCEPT !.pc = "num_certs"]
  /\ UNCHANGED <<bundleBytes, s_crt_bundle, s_should_verify_certs, last,
                 crts_freed, ld, loaded, calls, audio>>

\* A search whose interval ends at num_certs instead of num_certs - 1.
VerifyNumCerts_EndAtCount ==
  /\ vf.pc = "num_certs"
  /\ vf' = [vf EXCEPT !.pc = "loop", !.start = 0,
                      !.end = s_crt_bundle.num_certs,
                      !.middle = CDiv(s_crt_bundle.num_certs - 0, 2)]
  /\ UNCHANGED <<bundleBytes, s_crt_bundle, s_should_verify_certs, last,
                 crts_freed, ld, loaded, calls, audio>>

\* crtVerifyCallback, lines 109-112: start, end from num_certs, middle.
VerifyNumCerts ==
  /\ vf.pc = "num_certs"
  /\ vf' = [vf EXCEPT !.pc = "loop", !.start = 0,
                      !.end = s_crt_bundle.num_certs - 1,
                      !.middle = CDiv((s_crt_bundle.num_certs - 1) - 0, 2)]
  /\ UNCHANGED <<bundleBytes, s_crt_bundle, s_should_verify_certs, last,
                 crts_freed, ld, loaded, calls, audio>>

\* crtVerifyCallback, lines 115-129: the loop test and one iteration.
VerifyLoop ==
  /\ vf.pc = "loop"
  /\ IF ~(vf.start <= vf.end)
     THEN vf' = [vf EXCEPT !.pc = "check"]
     ELSE
     LET c == Candidate(vf.child.issuer_raw, bundleBytes, CrtsRead, vf.middle,
                        vf.junk)
         n == Narrow(vf.start, vf.end, vf.middle, c.cmp_res)
     IN  IF c.cmp_res = 0
         THEN vf' = [vf EXCEPT !.pc = "check", !.name_len = c.name_len,
                               !.crt_found = TRUE]
         ELSE vf' = [vf EXCEPT !.name_len = c.name_len, !.start = n.start,
                               !.end = n.end, !.middle = n.middle]
  /\ UNCHANGED <<bundleBytes, s_crt_bundle, s_should_verify_certs, last,
                 crts_freed, ld, loaded, calls, audio>>

\* crtVerifyCallback, lines 131-149: the key, the signature check, *flags.
VerifyCheck ==
  /\ vf.pc = "check"
  /\ LET found == [crt_found |-> vf.crt_found, middle |-> vf.middle,
                   name_len |-> vf.name_len]
         key == ReadKey(bundleBytes, [s_crt_bundle EXCEPT !.crts.arr = CrtsRead],
                        found, vf.junk)
         ret == IF vf.crt_found THEN crtCheckCertificate(vf.child, key).ret
                ELSE MBEDTLS_ERR_X509_FATAL_ERROR
     IN  vf' = [vf EXCEPT
                  !.pc = "idle",
                  !.flags = FlagsAfter(ret, vf.flags),
                  !.ret = IF ret = 0 THEN 0 ELSE MBEDTLS_ERR_X509_FATAL_ERROR]
  /\ UNCHANGED <<bundleBytes, s_crt_bundle, s_should_verify_certs, last,
                 crts_freed, ld, loaded, calls, audio>>

InitCall ==
  \E x509_bundle \in ConcBundles, alloc \in Allocs :
    InitEnter(x509_bundle, alloc.callocNull, alloc.newData)

VerifyCall ==
  \E child \in ConcCerts, flags \in ConcFlags, junk \in Junk :
    VerifyEnter(child, flags, junk)

\* One thread in init and one in crtVerifyCallback, their steps interleaved.
NextConc ==
  \/ InitCall \/ InitCopy \/ InitFree \/ InitNumCerts \/ InitCrts
  \/ InitShouldVerify
  \/ VerifyCall \/ VerifyNumCerts \/ VerifyLoop \/ VerifyCheck

SpecConc == Init /\ [][NextConc]_vars

(* ------------- crtVerifyCallback step by step, between loads ----------- *)

\* The buffers of this specification: every sorted bundle, the unsorted
\* one, an empty one of six bytes, and a truncated one.
SearchBundles ==
  SortedBundles \cup UnsortedBundles
    \cup {Truncate(Encode(<<EntryOf(AB)>>), 7), PaddedEmptyBundle}

\* The certificates: one per issuer, signed with the issuer's key.
SearchCerts == {c \in Certs : c.signer = KeyOf(c.issuer_raw) /\ c.sig_pk = "RSA"
                                /\ c.md_ret = 0}

\* A call of init while no verification is running.
LoadIdle ==
  /\ vf.pc = "idle"
  /\ \E x509_bundle \in SearchBundles, alloc \in Allocs :
       init(x509_bundle, alloc.callocNull, alloc.newData)
  /\ UNCHANGED <<threads, loaded, calls, audio>>

SearchCall ==
  \E child \in SearchCerts, flags \in ConcFlags, junk \in Junk :
    VerifyEnter(child, flags, junk)

\* Loads, and verifications that run step by step from entry to return.
NextSearch ==
  LoadIdle \/ SearchCall \/ VerifyNumCerts \/ VerifyLoop \/ VerifyCheck

SpecSearch == Init /\ [][NextSearch]_vars

(* ------------ CentralAudioBuffer: lockAccess, unlockAccess ------------- *)

\* The locals of thread t at the start of a call of op.
Calling(op) == [pc |-> "idle", op |-> op, sawLocked |-> isLocked, cleared |-> FALSE]

\* lockAccess, line 53: if (!isLocked); the call returns when it is set.
LockTest(t) ==
  /\ th[t].pc = "idle"
  /\ th' = [th EXCEPT ![t] = IF isLocked THEN Calling("lockAccess")
                              ELSE [Calling("lockAccess") EXCEPT !.pc = "l_clear"]]
  /\ UNCHANGED <<isLocked, accessMutex, x509>>

\* lockAccess, line 54: clearBuffer().
LockClear(t) ==
  /\ th[t].pc = "l_clear"
  /\ th' = [th EXCEPT ![t].pc = "l_lock", ![t].cleared = TRUE]
  /\ UNCHANGED <<isLocked, accessMutex, x509>>

\* lockAccess, line 55: accessMutex.lock() returns once the mutex is free.
LockAcquire(t) ==
  /\ th[t].pc = "l_lock"
  /\ accessMutex = 0
  /\ accessMutex' = t
  /\ th' = [th EXCEPT ![t].pc = "l_set"]
  /\ UNCHANGED <<isLocked, x509>>

\* lockAccess, line 55, by the thread that owns the mutex: undefined; the
\* thread waits for itself for ever (no step), or lock() throws
\* std::system_error and the call ends without line 56.
LockOwned(t) ==
  /\ th[t].pc = "l_lock"
  /\ accessMutex = t
  /\ th' = [th EXCEPT ![t].pc = "idle"]
  /\ UNCHANGED <<isLocked, accessMutex, x509>>

\* lockAccess, line 56: isLocked = true, and the return.
LockSet(t) ==
  /\ th[t].pc = "l_set"
  /\ isLocked' = TRUE
  /\ th' = [th EXCEPT ![t].pc = "idle"]
  /\ UNCHANGED <<accessMutex, x509>>

\* unlockAccess, line 64: if (isLocked); the call returns when it is clear.
UnlockTest(t) ==
  /\ th[t].pc = "idle"
  /\ th' = [th EXCEPT ![t] = IF isLocked
                              THEN [Calling("unlockAccess") EXCEPT !.pc = "u_clear"]
                              ELSE Calling("unlockAccess")]
  /\ UNCHANGED <<isLocked, accessMutex, x509>>

\* unlockAccess, line 65: clearBuffer().
UnlockClear(t) ==
  /\ th[t].pc = "u_clear"
  /\ th' = [th EXCEPT ![t].pc = "u_unlock", ![t].cleared = TRUE]
  /\ UNCHANGED <<isLocked, accessMutex, x509>>

\* unlockAccess, line 66: accessMutex.unlock().  By a thread that does not
\* own the mutex it is undefined: the mutex is released all the same, or it
\* is left as it is.
UnlockRelease(t) ==
  /\ th[t].pc = "u_unlock"
  /\ IF accessMutex = t
     THEN accessMutex' = 0
     ELSE accessMutex' \in {0, accessMutex}
  /\ th' = [th EXCEPT ![t].pc = "u_set"]
  /\ UNCHANGED <<isLocked, x509>>

\* unlockAccess, line 67: isLocked = false, and the return.
UnlockSet(t) ==
  /\ th[t].pc = "u_set"
  /\ isLocked' = FALSE
  /\ th' = [th EXCEPT ![t].pc = "idle"]
  /\ UNCHANGED <<accessMutex, x509>>

\* A step of thread t inside lockAccess.
lockAccess(t) ==
  LockTest(t) \/ LockClear(t) \/ LockAcquire(t) \/ LockOwned(t) \/ LockSet(t)

\* A step of thread t inside unlockAccess.
unlockAccess(t) ==
  UnlockTest(t) \/ UnlockClear(t) \/ UnlockRelease(t) \/ UnlockSet(t)

\* The threads' calls of lockAccess and unlockAccess, their steps interleaved.
NextAudio == \E t \in Threads : lockAccess(t) \/ unlockAccess(t)

SpecAudio == Init /\ [][NextAudio]_vars

(* ------------------- what the properties talk about -------------------- *)

\* The offset of each entry of an encoded entry list.
RECURSIVE OffsetsFrom(_, _)
OffsetsFrom(es, cur) ==
  IF es = <<>> THEN <<>>
  ELSE <<cur>> \o OffsetsFrom(Tail(es), cur + Len(EncodeEntry(Head(es))))

OffsetsOf(es) == OffsetsFrom(es, BUNDLE_HEADER_OFFSET)

\* The active store is the complete store of the entry list es: the bytes of
\* its encoding, one pointer per entry into these bytes, its count.
Holds(es) ==
  /\ bundleBytes.bytes = Encode(es)
  /\ ~s_crt_bundle.crts.null
  /\ s_crt_bundle.crts.arr = PointersAt(bundleBytes.data, OffsetsOf(es))
  /\ s_crt_bundle.num_certs = Len(es)

\* The masked flags are exactly the untrusted bit.
ExactlyUntrusted(flags) ==
  flags \in {MBEDTLS_X509_BADCERT_NOT_TRUSTED,
             MBEDTLS_X509_BADCERT_NOT_TRUSTED + MBEDTLS_X509_BADCERT_BAD_MD}

\* The last call was a verification that ran the lookup.
Searched == last.op = "crtVerifyCallback" /\ last.searched

\* The last call was a load rejected for a structural violation.
FailedLoad(l) == l.op = "init" /\ l.result = "InvalidBundle"

\* cursor_i of a buffer: 2 for the first entry, then 4 plus the two lengths
\* read at the cursor before it; past the end once a header does not fit.
RECURSIVE CursorAt(_, _)
CursorAt(b, i) ==
  IF i = 0 THEN 2
  ELSE LET c == CursorAt(b, i - 1) IN
       IF c + 4 > Len(b) THEN Len(b) + 1
       ELSE c + 4 + (b[c + 1] * 256 + b[c + 2]) + (b[c + 3] * 256 + b[c + 4])

\* The count a buffer of at least two bytes declares.
CountOf(b) == b[1] * 256 + b[2]

\* The structural bounds of a buffer: six bytes at least, every declared
\* entry's header inside the buffer, the final cursor not past the end.
MeetsBounds(b) ==
  /\ Len(b) >= 6
  /\ \A i \in 0..(CountOf(b) - 1) : CursorAt(b, i) + 4 <= Len(b)
  /\ CursorAt(b, CountOf(b)) <= Len(b)

\* The active store is the buffer b as given, with one index entry per
\* declared entry, entry i at cursor_i.
StoreOf(b) ==
  /\ bundleBytes.bytes = b
  /\ ~s_crt_bundle.crts.null
  /\ s_crt_bundle.num_certs = CountOf(b)
  /\ Len(s_crt_bundle.crts.arr) = CountOf(b)
  /\ \A i \in 0..(CountOf(b) - 1) :
       s_crt_bundle.crts.arr[i + 1] = [base |-> bundleBytes.data, off |-> CursorAt(b, i)]

\* Index m is an entry of the active index.
InIndex(m) ==
  /\ 0 <= m
  /\ m <= s_crt_bundle.num_certs - 1
  /\ m < Len(s_crt_bundle.crts.arr)

\* Entry m of the active index lies wholly inside the active buffer, with the
\* lengths currently stored at its offset.
EntryInside(m) ==
  LET crt == s_crt_bundle.crts.arr[m + 1]
      b == bundleBytes.bytes
  IN  /\ crt.base = bundleBytes.data
      /\ crt.off >= 2
      /\ crt.off + 4 <= Len(b)
      /\ crt.off + 4 + (b[crt.off + 1] * 256 + b[crt.off + 2])
                     + (b[crt.off + 3] * 256 + b[crt.off + 4]) <= Len(b)

\* The name and the key stored in entry m, an entry inside the buffer.
StoredName(m) ==
  LET off == s_crt_bundle.crts.arr[m + 1].off
      b == bundleBytes.bytes
  IN  SubSeq(b, off + 5, off + 4 + (b[off + 1] * 256 + b[off + 2]))

StoredKey(m) ==
  LET off == s_crt_bundle.crts.arr[m + 1].off
      b == bundleBytes.bytes
      nl == b[off + 1] * 256 + b[off + 2]
  IN  SubSeq(b, off + 5 + nl, off + 4 + nl + (b[off + 3] * 256 + b[off + 4]))

\* The loop of a running verification is at its head with an iteration to do.
AtCandidate == vf.pc = "loop" /\ vf.start <= vf.end

\* The four steps of the signature check, in order.
CheckSteps == <<"parse", "can_do", "md", "verify">>

\* Whether step k of a recorded call of crtCheckCertificate succeeds: the
\* blob is a key, the key is an RSA key and so is the signature algorithm,
\* the digest is computed, the signature was made with the key.
StepSucceeds(c, k) ==
  IF k = 1 THEN c.key \in {<<1>>, <<2>>, <<3>>, <<4>>}
  ELSE IF k = 2 THEN c.child.sig_pk = "RSA"
  ELSE IF k = 3 THEN c.child.md_ret = 0
  ELSE c.child.signer = c.key

\* Every thread has returned from its call.
AllReturned == \A t \in Threads : th[t].pc = "idle"

\* Thread t waits in accessMutex.lock() for a mutex that is held while every
\* other thread is outside both calls.
LeftBlocked(t) ==
  /\ th[t].pc = "l_lock"
  /\ accessMutex # 0
  /\ \A u \in Threads \ {t} : th[u].pc = "idle"

(* ------------------------------ properties ----------------------------- *)

\* C1: a load rejected for a structural violation while a store is active
\* leaves the active buffer bytes, the index, the count and TrustState as
\* they were before the load.
C1_FailedLoadLeavesStore ==
  [][(s_should_verify_certs /\ FailedLoad(last'))
       => (bundleBytes' = bundleBytes /\ s_crt_bundle' = s_crt_bundle
           /\ s_should_verify_certs' = s_should_verify_certs)]_vars

\* C2: round trip.  In the store of a sorted entry list, the lookup of the
\* i-th name stops with a match at entry i and the i-th key is what the
\* signature check is given, for every i, also when one stored name is a
\* proper prefix of another.
C2_RoundTrip ==
  \A es \in SortedLists : \A i \in 1..Len(es) :
    (Holds(es) /\ Searched /\ last.issuer = es[i].name)
      => (last.crt_found /\ last.middle = i - 1 /\ last.key = es[i].key)

\* C3: in the store of a sorted entry list the lookup matches only an issuer
\* equal to a stored name, at that entry's index; with "A","B","C": "B"
\* matches at index 1, "AA" and "D" are not found.
C3_MatchOnlyEqualName ==
  /\ \A es \in SortedLists :
       (Holds(es) /\ Searched /\ last.crt_found)
         => (last.middle \in 0..(Len(es) - 1)
             /\ es[last.middle + 1].name = last.issuer)
  /\ (Holds(<<EntryOf(A), EntryOf(B), EntryOf(C)>>) /\ Searched)
       => /\ last.issuer = B => (last.crt_found /\ last.middle = 1)
          /\ last.issuer \in {AA, D} => ~last.crt_found

\* C4: an issuer smaller than the first stored name or greater than the last
\* one is not found, and the verification returns the fatal error.
C4_OutsideRangeNotFound ==
  \A es \in SortedLists :
    (/\ Len(es) >= 1
     /\ Holds(es)
     /\ Searched
     /\ \/ NameLess(last.issuer, es[1].name)
        \/ NameLess(es[Len(es)].name, last.issuer))
      => (~last.crt_found /\ last.ret = MBEDTLS_ERR_X509_FATAL_ERROR)

\* C5: when the masked flags are not exactly the untrusted bit the callback
\* returns 0 with the flags unchanged and without running the lookup,
\* whether a bundle is loaded or not.
C5_DefersOtherFlags ==
  (last.op = "crtVerifyCallback" /\ ~ExactlyUntrusted(last.flags_in))
    => (last.ret = 0 /\ last.flags_out = last.flags_in /\ ~last.searched)

\* Reached: a deferred verification of untrusted plus expired flags with a
\* bundle loaded.
C5_Witness ==
  /\ last.op = "crtVerifyCallback"
  /\ last.flags_in = MBEDTLS_X509_BADCERT_NOT_TRUSTED + MBEDTLS_X509_BADCERT_EXPIRED
  /\ s_should_verify_certs
  /\ last.ret = 0

\* C6: while no load has fully succeeded, a verification of exactly
\* untrusted flags returns the fatal error and leaves the flags unchanged.
C6_NoTrustBeforeLoad ==
  (last.op = "crtVerifyCallback" /\ ExactlyUntrusted(last.flags_in)
     /\ ~s_should_verify_certs)
    => (last.ret = MBEDTLS_ERR_X509_FATAL_ERROR /\ last.flags_out = last.flags_in)

\* Reached: such a verification after a failed load that copied its bytes.
C6_Witness ==
  /\ last.op = "crtVerifyCallback"
  /\ ExactlyUntrusted(last.flags_in)
  /\ ~s_should_verify_certs
  /\ bundleBytes.bytes # <<>>
  /\ last.ret = MBEDTLS_ERR_X509_FATAL_ERROR

\* C7: for exactly untrusted flags the callback clears all flags and returns
\* 0 if and only if the lookup matched and the signature check returned 0;
\* otherwise it returns the fatal error and the flags keep their value.
C7_AllOrNothing ==
  (last.op = "crtVerifyCallback" /\ ExactlyUntrusted(last.flags_in))
    => LET trusted == last.crt_found /\ last.check_ret = 0 IN
       /\ trusted => (last.ret = 0 /\ last.flags_out = 0)
       /\ ~trusted => (last.ret = MBEDTLS_ERR_X509_FATAL_ERROR
                       /\ last.flags_out = last.flags_in)

\* Reached: a trusted certificate with the weak-digest bit set, all flags
\* cleared.
C7_Witness ==
  /\ last.op = "crtVerifyCallback"
  /\ last.flags_in = MBEDTLS_X509_BADCERT_NOT_TRUSTED + MBEDTLS_X509_BADCERT_BAD_MD
  /\ last.crt_found
  /\ last.check_ret = 0
  /\ last.flags_out = 0

\* C10: shouldVerify is false initially, becomes true exactly at a load that
\* fully succeeds, is left as it is by every other call, and never returns
\* to false.
C10_ReadyOnlyBySuccessfulLoad ==
  /\ ~shouldVerify
  /\ [][/\ (last'.op = "init" /\ last'.result = "ok") => shouldVerify'
        /\ ~(last'.op = "init" /\ last'.result = "ok")
             => shouldVerify' = shouldVerify
        /\ shouldVerify => shouldVerify']_vars

\* Reached: a failed load after a successful one, shouldVerify still true.
C10_Witness == shouldVerify /\ FailedLoad(last) /\ bundleBytes.bytes # <<>>

\* The active store is complete: the index, the count and the bytes are
\* those of one loaded buffer, and the index array is allocated.
CompleteStore ==
  /\ ~crts_freed
  /\ \/ s_crt_bundle.crts.null
     \/ \E es \in EntryLists : Holds(es)

\* C8: while a verification runs interleaved with a load, the store it reads
\* is at every step the complete previous store or the complete new one.
C8_VerifierReadsCompleteStore ==
  (vf.pc \in {"num_certs", "loop", "check"} /\ ld.pc # "idle") => CompleteStore

\* The entry list a loaded buffer encodes.
Decode(b) == CHOOSE es \in SortedLists : Encode(es) = b

NamesOf(b) == {Decode(b)[i].name : i \in 1..Len(Decode(b))}

\* C9: after load(A) and then load(B) succeeded, the store is B's, and a
\* certificate whose issuer is a name of A that B does not hold gets the
\* fatal error.
C9_ReloadReplaces ==
  Len(loaded) = 2
    => /\ Holds(Decode(loaded[2]))
       /\ (Searched /\ last.issuer \in NamesOf(loaded[1]) \ NamesOf(loaded[2]))
            => last.ret = MBEDTLS_ERR_X509_FATAL_ERROR

C12_ComparesOverStoredLength ==
  [][(/\ AtCandidate
      /\ InIndex(vf.middle)
      /\ EntryInside(vf.middle)
      /\ Len(StoredName(vf.middle)) <= Len(vf.child.issuer_raw))
       => ((vf'.pc = "check" /\ vf'.crt_found /\ vf'.middle = vf.middle
            /\ vf'.name_len = Len(StoredName(vf.middle)))
           <=> SubSeq(vf.child.issuer_raw, 1, Len(StoredName(vf.middle)))
                 = StoredName(vf.middle))]_vars

\* Reached: the issuer "AA" matched on the stored name "A".
C12_Witness ==
  /\ vf.pc = "check"
  /\ vf.crt_found
  /\ vf.child.issuer_raw = AA
  /\ InIndex(vf.middle)
  /\ EntryInside(vf.middle)
  /\ StoredName(vf.middle) = A

\* C13: whenever the lookup matches entry i the signature check is invoked,
\* once, with the keyLen_i bytes at offset_i + 4 + nameLen_i of the active
\* buffer; when the lookup finds no match it is not invoked.
C13_CheckGetsMatchedKey ==
  Searched
    => /\ last.crt_found
            => /\ InIndex(last.middle)
               /\ EntryInside(last.middle)
               /\ last.key = StoredKey(last.middle)
               /\ Len(last.steps) >= 1
               /\ \A i \in 1..Len(last.steps) : last.steps[i] = "parse" <=> i = 1
       /\ ~last.crt_found => last.steps = <<>>

\* C14: crtCheckCertificate returns 0 if and only if its four steps succeed;
\* the steps run in order up to and including the first one that fails, and
\* none after it, so no digest is computed after an algorithm mismatch.
C14_FirstFailureEnds ==
  chk # NoCheck
    => /\ (chk.ret = 0) <=> \A k \in 1..4 : StepSucceeds(chk, k)
       /\ Len(chk.steps) \in 1..4
       /\ chk.steps = SubSeq(CheckSteps, 1, Len(chk.steps))
       /\ \A k \in 1..(Len(chk.steps) - 1) : StepSucceeds(chk, k)
       /\ Len(chk.steps) < 4 => ~StepSucceeds(chk, Len(chk.steps))

\* Reached: an RSA key checked against an ECDSA signature, stopped after the
\* algorithm test with a non-zero result.
C14_Witness ==
  /\ chk.key = KeyOf(A)
  /\ chk.child.sig_pk = "ECDSA"
  /\ chk.child.md_ret # 0
  /\ chk.steps = <<"parse", "can_do">>
  /\ chk.ret # 0

\* C15: after any sequence of successful and failed loads, every entry of
\* the active index lies wholly inside the active buffer, with the lengths
\* currently stored at its offset.
C15_EntriesInsideBuffer ==
  ~s_crt_bundle.crts.null
    => \A m \in 0..(s_crt_bundle.num_certs - 1) : InIndex(m) /\ EntryInside(m)

\* C16: no iteration of the lookup reads more bytes of the issuer than
\* issuer_raw.len, whatever the nameLen of its candidate.
C16_IssuerReadsInsideIssuer ==
  AtCandidate
    => LET c == Candidate(vf.child.issuer_raw, bundleBytes, s_crt_bundle.crts.arr,
                          vf.middle, vf.junk)
       IN  IssuerBytesRead(vf.child.issuer_raw, bundleBytes, c.crt_name,
                           c.name_len, vf.junk) <= Len(vf.child.issuer_raw)

\* C17: every step of the binary-search loop either leaves the loop, with a
\* match or with start > end, or stays in it with a strictly smaller
\* interval [start, end]; the loop runs only while start <= end, so it ends.
C17_IntervalShrinks ==
  [][vf.pc = "loop"
       => \/ /\ vf'.pc = "check"
             /\ vf'.crt_found \/ vf'.start > vf'.end
          \/ /\ vf'.pc = "loop"
             /\ vf.start <= vf.end
             /\ vf'.end - vf'.start < vf.end - vf.start]_vars

\* Reached: the search of the unsorted bundle "B","A" for "A" left the loop
\* without a match after it went the wrong way.
C17_Witness ==
  /\ vf.pc = "check"
  /\ ~vf.crt_found
  /\ vf.start > vf.end
  /\ vf.child.issuer_raw = A
  /\ bundleBytes.bytes = Encode(<<EntryOf(B), EntryOf(A)>>)
  /\ s_crt_bundle.num_certs = 2

\* C18: whenever the loop body is about to read crts[middle], and whenever
\* the key of a found entry is about to be read, middle is an entry of the
\* index; with a count of 0 the loop body never runs and nothing is found.
C18_MiddleInIndex ==
  /\ AtCandidate => InIndex(vf.middle)
  /\ (vf.pc = "check" /\ vf.crt_found) => InIndex(vf.middle)
  /\ (vf.pc \in {"loop", "check"} /\ s_crt_bundle.num_certs = 0)
       => (vf.start > vf.end /\ ~vf.crt_found)

\* Reached: the last entry of a three-entry index about to be read.
C18_Witness ==
  /\ AtCandidate
  /\ s_crt_bundle.num_certs = 3
  /\ vf.middle = 2

C20_LockAgreesWithMutex ==
  /\ AllReturned => (isLocked <=> accessMutex # 0)
  /\ \A t \in Threads :
       (th[t].op = "lockAccess" /\ th[t].sawLocked)
         => (th[t].pc = "idle" /\ ~th[t].cleared)
  /\ \A t \in Threads : ~LeftBlocked(t)

====
